---- MODULE Spec2Model ----
(***************************************************************************)
(* Model of bjc-roi-dashboard-v2: the macro forecast engine               *)
(* (src/core/macro_model.py) and the micro metrics (src/core/metrics.py,   *)
(* src/core/utils.py) as src/app.py calls them.                            *)
(*                                                                         *)
(* Python floats are modelled as exact rationals [n, d] in lowest terms    *)
(* with d > 0; rounding error of IEEE arithmetic is not modelled.          *)
(* Python strings that the code strips / lower-cases are modelled as       *)
(* sequences of one-character strings, so that strip() and lower() are     *)
(* computed, not assumed.                                                  *)
(***************************************************************************)
EXTENDS Integers, Sequences, FiniteSets, TLC

VARIABLES inputs, budget_df, result, pc,   \* a call of build_macro_forecast
          donations_raw,                   \* the donations upload as read
          donations, costs, micro,         \* the micro view's tables and output
          calls, frames                    \* invocations in progress and their locals

vars == <<inputs, budget_df, result, pc, donations_raw, donations, costs, micro, calls, frames>>

----------------------------------------------------------------------------
(* Bounds of the model *)

\* money inputs range over -1000, 0, 1000, ..., MaxUnits * 1000 (and the
\* documented sample values)
MaxUnits == 1

----------------------------------------------------------------------------
(* Exact rational arithmetic standing for Python float arithmetic *)

Abs(i) == IF i < 0 THEN -i ELSE i

RECURSIVE GCD(_, _)
GCD(a, b) == IF b = 0 THEN a ELSE GCD(b, a % b)

\* the rational n/d (d /= 0) in lowest terms with a positive denominator
Q(n, d) ==
    LET s == IF d < 0 THEN -1 ELSE 1
        g == GCD(Abs(n), Abs(d))
    IN  [n |-> (s * n) \div g, d |-> (s * d) \div g]

Zero == Q(0, 1)
One == Q(1, 1)
Two == Q(2, 1)

\* float(x) of an int
Float(i) == Q(i, 1)

Add(x, y) ==
    LET g == GCD(x.d, y.d)
    IN  Q(x.n * (y.d \div g) + y.n * (x.d \div g), (x.d \div g) * y.d)

Neg(x) == [n |-> -x.n, d |-> x.d]

Sub(x, y) == Add(x, Neg(y))

Mul(x, y) ==
    LET g1 == GCD(Abs(x.n), y.d)
        g2 == GCD(Abs(y.n), x.d)
    IN  [n |-> (x.n \div g1) * (y.n \div g2), d |-> (x.d \div g2) * (y.d \div g1)]

\* x / y for y /= 0
Div(x, y) == Mul(x, Q(y.d, y.n))

Less(x, y) == x.n * y.d < y.n * x.d

Leq(x, y) == x.n * y.d <= y.n * x.d

Max(x, y) == IF Less(x, y) THEN y ELSE x

----------------------------------------------------------------------------
(* Python str.strip() and str.lower() on sequences of characters *)

Whitespace == {" ", "\t", "\n", "\r"}

Upper == <<"A","B","C","D","E","F","G","H","I","J","K","L","M",
           "N","O","P","Q","R","S","T","U","V","W","X","Y","Z">>
LowerOf == <<"a","b","c","d","e","f","g","h","i","j","k","l","m",
             "n","o","p","q","r","s","t","u","v","w","x","y","z">>

LowerChar(c) ==
    IF \E i \in 1..26 : Upper[i] = c
    THEN LowerOf[CHOOSE i \in 1..26 : Upper[i] = c]
    ELSE c

StrLower(s) == [i \in 1..Len(s) |-> LowerChar(s[i])]

RECURSIVE LStrip(_)
LStrip(s) == IF s /= <<>> /\ Head(s) \in Whitespace THEN LStrip(Tail(s)) ELSE s

RECURSIVE RStrip(_)
RStrip(s) ==
    IF s /= <<>> /\ s[Len(s)] \in Whitespace
    THEN RStrip(SubSeq(s, 1, Len(s) - 1))
    ELSE s

StrStrip(s) == RStrip(LStrip(s))

S_prior == <<"p","r","i","o","r">>
S_remaining == <<"r","e","m","a","i","n","i","n","g">>

S_empty == <<>>

----------------------------------------------------------------------------
(* src/core/macro_model.py *)

\* mutant: a zero denominator yields the numerator instead of 0.0
_safe_div_numerator(a, b) == IF b /= Zero THEN Div(a, b) ELSE a

\* _safe_div(a, b): float(a) / float(b) if b not in (0, None) else 0.0
_safe_div(a, b) == IF b /= Zero THEN Div(a, b) ELSE Zero

\* `method or "prior"`, then .strip().lower()
NormMethod(method) ==
    StrLower(StrStrip(IF method = S_empty THEN S_prior ELSE method))

\* mutant: the shock applied to Year 2 is carried into Year 3 and applied again
_build_revenue_series_compounded(total_raised_y1, retention, method, revenue_shock) ==
    LET y1 == total_raised_y1
        m == NormMethod(method)
        y2 == IF m = S_remaining THEN Zero ELSE Mul(retention, y1)
        s2 == Mul(y2, Add(One, revenue_shock))
    IN  <<y1, s2, Mul(Mul(retention, s2), Add(One, revenue_shock))>>

\* mutant: Year 3 retains from Year 1 instead of from Year 2
_build_revenue_series_flat(total_raised_y1, retention, method, revenue_shock) ==
    LET y1 == total_raised_y1
        m == NormMethod(method)
        y2 == IF m = S_remaining THEN Zero ELSE Mul(retention, y1)
    IN  <<y1, Mul(y2, Add(One, revenue_shock)), Mul(y2, Add(One, revenue_shock))>>

\* mutant: the shock factor written as (shock - 1) instead of (1 + shock)
_build_revenue_series_sign(total_raised_y1, retention, method, revenue_shock) ==
    LET y1 == total_raised_y1
        m == NormMethod(method)
        y2 == IF m = S_remaining THEN Zero ELSE Mul(retention, y1)
        y3 == Mul(retention, y2)
    IN  <<y1, Mul(y2, Sub(revenue_shock, One)), Mul(y3, Sub(revenue_shock, One))>>

\* mutant: the remaining balance after Year 1 is taken to be all of Year 1
_build_revenue_series_balance(total_raised_y1, retention, method, revenue_shock) ==
    LET y1 == total_raised_y1
        m == NormMethod(method)
        remaining == IF m = S_remaining THEN Max(y1, Zero) ELSE y1
        y2 == Mul(retention, remaining)
        y3 == Mul(retention, IF m = S_remaining THEN Max(Sub(remaining, y2), Zero) ELSE y2)
    IN  <<y1, Mul(y2, Add(One, revenue_shock)), Mul(y3, Add(One, revenue_shock))>>

\* _build_revenue_series: [y1, y2, y3]
_build_revenue_series(total_raised_y1, retention, method, revenue_shock) ==
    LET y1 == total_raised_y1
        m == NormMethod(method)
        remaining == Max(Sub(y1, y1), Zero)
        r_y2 == Mul(retention, remaining)
        remaining2 == Max(Sub(remaining, r_y2), Zero)
        r_y3 == Mul(retention, remaining2)
        p_y2 == Mul(retention, y1)
        p_y3 == Mul(retention, p_y2)
        y2 == IF m = S_remaining THEN r_y2 ELSE p_y2
        y3 == IF m = S_remaining THEN r_y3 ELSE p_y3
    IN  <<y1,
          Mul(y2, Add(One, revenue_shock)),
          Mul(y3, Add(One, revenue_shock))>>

\* mutant: the cost shock is applied to Year 1 as well
_build_cost_series_shock_all(base_cost_y1, margin, cost_growth, cost_shock, acquisition_cost_year1_only) ==
    LET y1 == Mul(base_cost_y1, Add(One, margin))
        g == Add(One, cost_growth)
        b == IF acquisition_cost_year1_only THEN Mul(base_cost_y1, margin) ELSE y1
        k == Add(One, cost_shock)
    IN  <<Mul(y1, k), Mul(Mul(b, g), k), Mul(Mul(b, Mul(g, g)), k)>>

\* mutant: the stewardship years grow from the full Year 1 cost under both
\* policies
_build_cost_series_full_base(base_cost_y1, margin, cost_growth, cost_shock, acquisition_cost_year1_only) ==
    LET y1 == Mul(base_cost_y1, Add(One, margin))
        g == Add(One, cost_growth)
        k == Add(One, cost_shock)
    IN  <<y1, Mul(Mul(y1, g), k), Mul(Mul(y1, Mul(g, g)), k)>>

\* _build_cost_series: [y1, y2, y3]
_build_cost_series(base_cost_y1, margin, cost_growth, cost_shock, acquisition_cost_year1_only) ==
    LET y1 == Mul(base_cost_y1, Add(One, margin))
        stewardship_base == Mul(base_cost_y1, margin)
        g == Add(One, cost_growth)
        a_y2 == Mul(stewardship_base, g)
        a_y3 == Mul(stewardship_base, Mul(g, g))
        l_y2 == Mul(y1, g)
        l_y3 == Mul(l_y2, g)
        y2 == IF acquisition_cost_year1_only THEN a_y2 ELSE l_y2
        y3 == IF acquisition_cost_year1_only THEN a_y3 ELSE l_y3
    IN  <<y1,
          Mul(y2, Add(One, cost_shock)),
          Mul(y3, Add(One, cost_shock))>>

\* years = ["Year 1", "Year 2", "Year 3"]
years == <<"Year 1", "Year 2", "Year 3">>

\* pd.DataFrame({"Year": years, "Revenue": revenue, "Cost": cost}): one
\* record per row, in the order of the lists
NewFrame(yrs, revenue, cost) ==
    [i \in 1..Len(yrs) |->
        [Year |-> yrs[i], Revenue |-> revenue[i], Cost |-> cost[i]]]

\* mutant: Net taken as Cost - Revenue
WithNet_reversed(df) ==
    [i \in DOMAIN df |-> df[i] @@ ("Net" :> Sub(df[i].Cost, df[i].Revenue))]

\* df["Net"] = df["Revenue"] - df["Cost"]
WithNet(df) ==
    [i \in DOMAIN df |-> df[i] @@ ("Net" :> Sub(df[i].Revenue, df[i].Cost))]

\* df["ROI Multiple"] = df.apply(lambda r: _safe_div(r["Revenue"], r["Cost"]), axis=1)
WithRoiMultiple(df) ==
    [i \in DOMAIN df |->
        df[i] @@ ("ROI Multiple" :> _safe_div(df[i].Revenue, df[i].Cost))]

\* df["ROI %"] = df["ROI Multiple"] - 1.0
WithRoiPct(df) ==
    [i \in DOMAIN df |-> df[i] @@ ("ROI %" :> Sub(df[i]["ROI Multiple"], One))]

\* df[col].sum()
RECURSIVE ColSumTo(_, _, _)
ColSumTo(df, col, k) ==
    IF k = 0 THEN Zero ELSE Add(ColSumTo(df, col, k - 1), df[k][col])

ColSum(df, col) == ColSumTo(df, col, Len(df))

\* the forecast table of build_macro_forecast
ForecastFrame(inp) ==
    LET revenue == _build_revenue_series(inp.total_raised_y1, inp.retention,
                                         inp.revenue_method, inp.revenue_shock)
        cost == _build_cost_series(inp.base_cost_y1, inp.margin, inp.cost_growth,
                                   inp.cost_shock, inp.acquisition_cost_year1_only)
    IN  WithRoiPct(WithRoiMultiple(WithNet(NewFrame(years, revenue, cost))))

\* mutant: the 'Cost per $1 (3yr)' key is left out of the dict
Kpis_without_cost_per_1(df) ==
    LET total_rev == ColSum(df, "Revenue")
        total_cost == ColSum(df, "Cost")
        roi_mult == _safe_div(total_rev, total_cost)
    IN  ("Total Revenue (3yr)" :> total_rev)
        @@ ("Total Cost (3yr)" :> total_cost)
        @@ ("Total Net (3yr)" :> ColSum(df, "Net"))
        @@ ("ROI Multiple (3yr)" :> roi_mult)
        @@ ("ROI % (3yr)" :> Sub(roi_mult, One))

\* mutant: 'Cost per $1 (3yr)' computed like the ROI multiple, revenue over cost
Kpis_cost_per_1_inverted(df) ==
    LET total_rev == ColSum(df, "Revenue")
        total_cost == ColSum(df, "Cost")
        roi_mult == _safe_div(total_rev, total_cost)
    IN  ("Total Revenue (3yr)" :> total_rev)
        @@ ("Total Cost (3yr)" :> total_cost)
        @@ ("Total Net (3yr)" :> ColSum(df, "Net"))
        @@ ("ROI Multiple (3yr)" :> roi_mult)
        @@ ("ROI % (3yr)" :> Sub(roi_mult, One))
        @@ ("Cost per $1 (3yr)" :> _safe_div(total_rev, total_cost))

\* the kpis dict of build_macro_forecast
Kpis(df) ==
    LET total_rev == ColSum(df, "Revenue")
        total_cost == ColSum(df, "Cost")
        total_net == ColSum(df, "Net")
        roi_mult == _safe_div(total_rev, total_cost)
    IN  ("Total Revenue (3yr)" :> total_rev)
        @@ ("Total Cost (3yr)" :> total_cost)
        @@ ("Total Net (3yr)" :> total_net)
        @@ ("ROI Multiple (3yr)" :> roi_mult)
        @@ ("ROI % (3yr)" :> Sub(roi_mult, One))
        @@ ("Cost per $1 (3yr)" :> _safe_div(total_cost, total_rev))

REC_BELOW == "Overall ROI is below 1.0x (costs exceed returns). Re-check retention, reduce acquisition cost, or focus more on high-yield donor segments."
REC_MODERATE == "ROI is positive but moderate. Improving retention and controlling ongoing stewardship cost would materially improve net resources."
REC_STRONG == "ROI is strong. Consider scaling the strategies producing the highest retained revenue while monitoring cost growth assumptions."
REC_REMAINING == "Revenue Method is set to 'remaining'. If Year 2 and Year 3 show $0, switch to 'prior' to model 60% of prior-year retained revenue (Katie's approach)."

\* mutant: the band thresholds compared with <= instead of <
Recommendations_inclusive(kpis, inp) ==
    LET roi == kpis["ROI Multiple (3yr)"]
        band == IF Leq(roi, One) THEN <<REC_BELOW>>
                ELSE IF Leq(roi, Two) THEN <<REC_MODERATE>>
                ELSE <<REC_STRONG>>
    IN  band \o (IF inp.revenue_method = S_remaining THEN <<REC_REMAINING>> ELSE <<>>)

\* the recommendations list of build_macro_forecast
Recommendations(kpis, inp) ==
    LET roi == kpis["ROI Multiple (3yr)"]
        band == IF Less(roi, One) THEN <<REC_BELOW>>
                ELSE IF Less(roi, Two) THEN <<REC_MODERATE>>
                ELSE <<REC_STRONG>>
    IN  band \o (IF inp.revenue_method = S_remaining THEN <<REC_REMAINING>> ELSE <<>>)

\* a pandas DataFrame argument that may be None: columns are the column
\* names (character sequences), rows the rows, each a sequence of cells in
\* column order
NoneFrame == [none |-> TRUE, columns |-> <<>>, rows |-> <<>>]

Frame(cols, rws) == [none |-> FALSE, columns |-> cols, rows |-> rws]

\* budget_out = None, or the merged frame m (one record per row)
NoBudgetOut == [none |-> TRUE, rows |-> <<>>]

S_year == <<"y","e","a","r">>
S_budget_revenue == <<"b","u","d","g","e","t"," ","r","e","v","e","n","u","e">>
S_budget__revenue == <<"b","u","d","g","e","t","_","r","e","v","e","n","u","e">>
S_revenue_budget == <<"r","e","v","e","n","u","e","_","b","u","d","g","e","t">>
S_budget_cost == <<"b","u","d","g","e","t"," ","c","o","s","t">>
S_budget__cost == <<"b","u","d","g","e","t","_","c","o","s","t">>
S_cost_budget == <<"c","o","s","t","_","b","u","d","g","e","t">>

\* b.columns = [str(c).strip() for c in b.columns]
StripCols(cols) == [i \in 1..Len(cols) |-> StrStrip(cols[i])]

\* next((c for c in b.columns if c.lower() in names), None): the position of
\* the first such column, 0 for None
FirstCol(cols, names) ==
    LET hits == {i \in 1..Len(cols) : StrLower(cols[i]) \in names}
    IN  IF hits = {} THEN 0 ELSE CHOOSE i \in hits : \A j \in hits : i <= j

\* mutant: the variances taken as Budget - Forecast
MergeRow_budget_minus_forecast(y, brev, bcost, df) ==
    LET hit == {i \in DOMAIN df : df[i].Year = y}
        f == IF hit = {} THEN [Revenue |-> Zero, Cost |-> Zero, Net |-> Zero]
             ELSE df[CHOOSE i \in hit : TRUE]
        bnet == Sub(brev, bcost)
    IN  [Year |-> y, Revenue |-> f.Revenue, Cost |-> f.Cost, Net |-> f.Net]
        @@ ("Budget Revenue" :> brev)
        @@ ("Budget Cost" :> bcost)
        @@ ("Budget Net" :> bnet)
        @@ ("Revenue Var" :> Sub(brev, f.Revenue))
        @@ ("Cost Var" :> Sub(bcost, f.Cost))
        @@ ("Net Var" :> Sub(bnet, f.Net))

\* one row of pd.merge(b, df[["Year","Revenue","Cost","Net"]], on="Year",
\* how="left").fillna(0) with the variance columns added; the forecast years
\* are distinct, so a budget row yields exactly one merged row
MergeRow(y, brev, bcost, df) ==
    LET hit == {i \in DOMAIN df : df[i].Year = y}
        f == IF hit = {} THEN [Revenue |-> Zero, Cost |-> Zero, Net |-> Zero]
             ELSE df[CHOOSE i \in hit : TRUE]
        bnet == Sub(brev, bcost)
    IN  [Year |-> y, Revenue |-> f.Revenue, Cost |-> f.Cost, Net |-> f.Net]
        @@ ("Budget Revenue" :> brev)
        @@ ("Budget Cost" :> bcost)
        @@ ("Budget Net" :> bnet)
        @@ ("Revenue Var" :> Sub(f.Revenue, brev))
        @@ ("Cost Var" :> Sub(f.Cost, bcost))
        @@ ("Net Var" :> Sub(f.Net, bnet))

\* mutant: the len(budget_df) > 0 test is dropped, so a budget with the three
\* columns and no rows yields an empty frame instead of None
BudgetCompare_no_len_test(b_df, df) ==
    IF b_df.none THEN NoBudgetOut
    ELSE
    LET cols == StripCols(b_df.columns)
        col_year == FirstCol(cols, {S_year})
        col_brev == FirstCol(cols, {S_budget_revenue, S_budget__revenue, S_revenue_budget})
        col_bcost == FirstCol(cols, {S_budget_cost, S_budget__cost, S_cost_budget})
    IN  IF col_year = 0 \/ col_brev = 0 \/ col_bcost = 0 THEN NoBudgetOut
        ELSE [none |-> FALSE,
              rows |-> [k \in 1..Len(b_df.rows) |->
                          MergeRow(b_df.rows[k][col_year], b_df.rows[k][col_brev],
                                   b_df.rows[k][col_bcost], df)]]

\* the optional budget comparison of build_macro_forecast
BudgetCompare(b_df, df) ==
    IF b_df.none \/ Len(b_df.rows) = 0 THEN NoBudgetOut
    ELSE
    LET cols == StripCols(b_df.columns)
        col_year == FirstCol(cols, {S_year})
        col_brev == FirstCol(cols, {S_budget_revenue, S_budget__revenue, S_revenue_budget})
        col_bcost == FirstCol(cols, {S_budget_cost, S_budget__cost, S_cost_budget})
    IN  IF col_year = 0 \/ col_brev = 0 \/ col_bcost = 0 THEN NoBudgetOut
        ELSE [none |-> FALSE,
              rows |-> [k \in 1..Len(b_df.rows) |->
                          MergeRow(b_df.rows[k][col_year], b_df.rows[k][col_brev],
                                   b_df.rows[k][col_bcost], df)]]

\* mutant: the stripped column names are assigned to the caller's frame (the
\* copy is left out)
caller_budget_after_no_copy(b_df) ==
    IF b_df.none \/ Len(b_df.rows) = 0 THEN b_df
    ELSE [b_df EXCEPT !.columns = StripCols(b_df.columns)]

\* the caller's budget frame after the call: b = budget_df.copy() comes before
\* b.columns = [...], and rename, merge and fillna return new frames, so every
\* assignment is to a frame the function made
caller_budget_after(b_df) == b_df

\* build_macro_forecast(inputs, budget_df): the returned dict
build_macro_forecast(inp, b_df) ==
    LET df == ForecastFrame(inp)
        kpis == Kpis(df)
    IN  [forecast_df |-> df,
         kpis |-> kpis,
         budget_df |-> BudgetCompare(b_df, df),
         recommendations |-> Recommendations(kpis, inp)]

\* macro_view, "Budget & Variance" tab: the info message when the model has no
\* budget comparison, the charts and the comparison table otherwise
macro_view_budget_tab(model) ==
    IF model.budget_df.none THEN "info" ELSE "charts"

----------------------------------------------------------------------------
(* src/core/utils.py, src/core/metrics.py: the micro metrics.  A table is a
   sequence of rows; a donation row has date, amount, donor_id, campaign_code
   and channel, a cost row has cost_amount, campaign_code and channel.  Dates
   are day numbers. *)

\* a missing number (NaN) and a missing label (NaN in an object column)
NaN == [n |-> 0, d |-> 0]
NA == "NaN"

\* utils.safe_div
safe_div(a, b) == IF b /= Zero THEN Div(a, b) ELSE Zero

\* Series.fillna(0) on one value
FillNa0(x) == IF x = NaN THEN Zero ELSE x

\* df[col].fillna(0).sum(), also Series.sum() (which skips NaN)
RECURSIVE SumTo(_, _, _)
SumTo(rows, col, k) ==
    IF k = 0 THEN Zero ELSE Add(SumTo(rows, col, k - 1), FillNa0(rows[k][col]))

SumCol(rows, col) == SumTo(rows, col, Len(rows))

\* donations["donor_id"].nunique(): missing ids are not counted
NUnique(rows, col) == Cardinality({rows[k][col] : k \in DOMAIN rows} \ {NA})

\* mutant: roi taken as raised over costs instead of net over costs
compute_kpis_gross_roi(don, cst) ==
    LET total_raised == SumCol(don, "amount")
        total_costs == SumCol(cst, "cost_amount")
        gifts == Len(don)
    IN  [total_raised |-> total_raised,
         total_costs |-> total_costs,
         net_raised |-> Sub(total_raised, total_costs),
         roi |-> IF Less(Zero, total_costs) THEN Div(total_raised, total_costs) ELSE Zero,
         cost_to_raise_1 |-> IF Less(Zero, total_raised) THEN safe_div(total_costs, total_raised) ELSE Zero,
         donors |-> IF Len(don) /= 0 THEN NUnique(don, "donor_id") ELSE 0,
         gifts |-> gifts,
         avg_gift |-> IF gifts > 0 THEN safe_div(total_raised, Float(gifts)) ELSE Zero]

\* metrics.compute_kpis
compute_kpis(don, cst) ==
    LET total_raised == SumCol(don, "amount")
        total_costs == SumCol(cst, "cost_amount")
        net_raised == Sub(total_raised, total_costs)
        gifts == Len(don)
    IN  [total_raised |-> total_raised,
         total_costs |-> total_costs,
         net_raised |-> net_raised,
         roi |-> IF Less(Zero, total_costs) THEN Div(net_raised, total_costs) ELSE Zero,
         cost_to_raise_1 |-> IF Less(Zero, total_raised) THEN safe_div(total_costs, total_raised) ELSE Zero,
         donors |-> IF Len(don) /= 0 THEN NUnique(don, "donor_id") ELSE 0,
         gifts |-> gifts,
         avg_gift |-> IF gifts > 0 THEN safe_div(total_raised, Float(gifts)) ELSE Zero]

\* str(c).strip().lower() on the headers of the model's uploads
NormHeader(h) ==
    CASE h = "Date Received" -> "date received"
      [] h = "Amount" -> "amount"
      [] h = "VANID" -> "vanid"
      [] h = "Source Code" -> "source code"
      [] h = "Channel" -> "channel"
      [] h = " Payment Method " -> "payment method"
      [] h = "Cost" -> "cost"
      [] OTHER -> h

\* the targets of normalize_columns in the order of the aliases dict
Targets(kind) ==
    IF kind = "donations"
    THEN <<"date", "amount", "donor_id", "campaign_code", "channel",
           "contribution_id", "contact_name", "designation", "payment_method",
           "remaining_amount", "financial_batch">>
    ELSE <<"date", "cost_amount", "campaign_code", "channel", "cost_type", "notes">>

\* the aliases dict of normalize_columns
Aliases(kind, target) ==
    IF kind = "donations"
    THEN CASE target = "date" -> <<"date", "giftdate", "contributiondate", "transactiondate", "receiveddate", "date received", "date rece">>
           [] target = "amount" -> <<"amount", "contributionamount", "giftamount", "total">>
           [] target = "donor_id" -> <<"donor_id", "vanid", "personid", "donorid", "contactid", "id">>
           [] target = "campaign_code" -> <<"campaign_code", "appealcode", "campaign", "sourcecode", "fundraisingcode", "appeal", "source code", "source co">>
           [] target = "channel" -> <<"channel", "source", "medium", "fundraisingsource", "payment method", "payment m">>
           [] target = "contribution_id" -> <<"contribution id", "contributi", "contributionid">>
           [] target = "contact_name" -> <<"contact name", "contact n", "contactname">>
           [] target = "designation" -> <<"designation", "designati">>
           [] target = "payment_method" -> <<"payment method", "payment m", "paymentmethod">>
           [] target = "remaining_amount" -> <<"remaining amount", "remaining", "remainingamount">>
           [] target = "financial_batch" -> <<"financial batch", "financialbatch">>
    ELSE CASE target = "date" -> <<"date", "expensedate", "paiddate", "transactiondate">>
           [] target = "cost_amount" -> <<"cost_amount", "amount", "expense", "cost", "total">>
           [] target = "campaign_code" -> <<"campaign_code", "appealcode", "campaign", "sourcecode", "fundraisingcode", "appeal">>
           [] target = "channel" -> <<"channel", "source", "medium">>
           [] target = "cost_type" -> <<"cost_type", "type", "category">>
           [] target = "notes" -> <<"notes", "memo", "description">>

\* find_col: the position in cols of the first alias that is a column, 0 for
\* None
find_col(cols, aliases) ==
    LET hits == {a \in DOMAIN aliases : \E c \in DOMAIN cols : cols[c] = aliases[a]}
    IN  IF hits = {} THEN 0
        ELSE LET first == CHOOSE a \in hits : \A b \in hits : a <= b
             IN  CHOOSE c \in DOMAIN cols : cols[c] = aliases[first]

\* Series.fillna(value) on one cell
FillNa(x, value) == IF x = NA THEN value ELSE x

\* astype(str).str.strip() == "" on the cell texts of the model
IsBlank(x) == x \in {"", " "}

\* out[target] = df[col] if col else np.nan, for one row
BuildRow(cols, row, kind) ==
    [t \in {Targets(kind)[k] : k \in DOMAIN Targets(kind)} |->
        LET col == find_col(cols, Aliases(kind, t))
        IN  IF col = 0 THEN NA ELSE row[col]]

\* the defaults of normalize_columns for one row
WithDefaults(r, kind) ==
    IF kind = "donations"
    THEN LET channel == FillNa(r.channel, "UNMAPPED")
             mask == channel = NA \/ IsBlank(channel) \/ channel = "UNMAPPED"
         IN  [r EXCEPT !.campaign_code = FillNa(r.campaign_code, "UNMAPPED"),
                       !.channel = IF mask THEN r.payment_method ELSE channel]
    ELSE [r EXCEPT !.campaign_code = FillNa(r.campaign_code, "UNMAPPED"),
                   !.channel = FillNa(r.channel, "UNMAPPED"),
                   !.cost_type = FillNa(r.cost_type, "Direct"),
                   !.notes = FillNa(r.notes, "")]

\* utils.normalize_columns
normalize_columns(df, kind) ==
    LET cols == [c \in DOMAIN df.columns |-> NormHeader(df.columns[c])]
    IN  [k \in DOMAIN df.rows |-> WithDefaults(BuildRow(cols, df.rows[k], kind), kind)]

\* the labels of the model's tables in sorted order (the order of a groupby
\* index and of sort_values)
LabelOrder == <<"A", "B", "C", "D1", "D2", "EMAIL", "MAIL", "UNMAPPED">>

\* df.groupby(by): the group keys, missing keys dropped
GroupKeys(rows, by) == {rows[k][by] : k \in DOMAIN rows} \ {NA}

\* df.groupby(by)[col].sum() at one key
GroupSum(rows, by, col, key) ==
    SumCol(SelectSeq(rows, LAMBDA r : r[by] = key), col)

\* one row of compute_rollups: the two sums at a key, a missing one filled
\* with 0, and the derived columns
RollupRow(don, cst, by, key) ==
    LET raised == IF key \in GroupKeys(don, by) THEN GroupSum(don, by, "amount", key) ELSE Zero
        cost == IF key \in GroupKeys(cst, by) THEN GroupSum(cst, by, "cost_amount", key) ELSE Zero
        net == Sub(raised, cost)
    IN  [key |-> key, raised |-> raised, costs |-> cost, net |-> net,
         roi |-> IF Less(Zero, cost) THEN Div(net, cost) ELSE Zero,
         cost_to_raise_1 |-> IF Less(Zero, raised) THEN Div(cost, raised) ELSE Zero]

\* the rows of the rollup for the keys in `keys`, in index order
RollupRows(don, cst, by, keys) ==
    LET ordered == SelectSeq(LabelOrder, LAMBDA l : l \in keys)
    IN  [i \in 1..Len(ordered) |-> RollupRow(don, cst, by, ordered[i])]

\* mutant: the two sums are joined on the keys both sides have (inner join)
compute_rollups_inner(don, cst, by) ==
    RollupRows(don, cst, by, GroupKeys(don, by) \cap GroupKeys(cst, by))

\* metrics.compute_rollups: pd.concat([raised, cost], axis=1) joins on the union
\* of the keys
compute_rollups(don, cst, by) ==
    RollupRows(don, cst, by, GroupKeys(don, by) \cup GroupKeys(cst, by))

\* position of a label in sorted order, missing labels last
Rank(l) ==
    IF l = NA THEN Len(LabelOrder) + 1
    ELSE CHOOSE i \in 1..Len(LabelOrder) : LabelOrder[i] = l

\* sort_values(["donor_id", "date"]): a before b
SortsBefore(a, b) ==
    \/ Rank(a.donor_id) < Rank(b.donor_id)
    \/ Rank(a.donor_id) = Rank(b.donor_id) /\ a.date < b.date

\* stable insertion of a row into a sorted table
RECURSIVE InsertSorted(_, _)
InsertSorted(r, sorted) ==
    IF sorted = <<>> THEN <<r>>
    ELSE IF SortsBefore(r, Head(sorted)) THEN <<r>> \o sorted
    ELSE <<Head(sorted)>> \o InsertSorted(r, Tail(sorted))

RECURSIVE SortDonations(_)
SortDonations(d) ==
    IF d = <<>> THEN <<>>
    ELSE InsertSorted(d[Len(d)], SortDonations(SubSeq(d, 1, Len(d) - 1)))

\* d.groupby("donor_id")["date"].transform("min") at one row: the earliest date
\* of the row's donor; 0 stands for NaT, which a row with a missing donor_id gets
FirstDate(d, r) ==
    IF r.donor_id = NA THEN 0
    ELSE LET dates == {d[k].date : k \in {j \in DOMAIN d : d[j].donor_id = r.donor_id}}
         IN  CHOOSE m \in dates : \A x \in dates : m <= x

\* mutant: only the first row of each donor in sorted order is New
segment_donors_basic_first_row(d) ==
    LET sorted == SortDonations(d)
    IN  [i \in 1..Len(sorted) |->
            sorted[i] @@ ("donor_segment" :>
                IF sorted[i].donor_id /= NA
                   /\ (i = 1 \/ sorted[i - 1].donor_id /= sorted[i].donor_id)
                THEN "New" ELSE "Returning")]

\* utils.segment_donors_basic
segment_donors_basic(d) ==
    LET sorted == SortDonations(d)
    IN  [i \in 1..Len(sorted) |->
            sorted[i] @@ ("donor_segment" :>
                IF sorted[i].date = FirstDate(sorted, sorted[i])
                THEN "New" ELSE "Returning")]

----------------------------------------------------------------------------
(* The callers' inputs *)

\* total_raised_y1 / base_cost_y1 values, the documented samples included
Amounts(sample) == {Float(k * 1000) : k \in -1..MaxUnits} \cup {Float(sample)}

Retentions == {Q(-1, 2), Zero, Q(3, 5), One}
Shocks == {Q(-3, 2), Q(-1, 10), Zero, Q(1, 20)}
Margins == {Q(-1, 2), Zero, Q(1, 5)}
Growths == {Q(-3, 2), Zero, Q(1, 20)}
Methods == {S_prior, S_remaining, S_empty,
            <<" ","R","E","M","A","I","N","I","N","G"," ">>}

\* MacroInputs
MacroInputs ==
    [total_raised_y1 : Amounts(250000),
     base_cost_y1 : Amounts(150000),
     retention : Retentions,
     revenue_method : Methods,
     revenue_shock : Shocks,
     margin : Margins,
     cost_growth : Growths,
     cost_shock : Shocks,
     acquisition_cost_year1_only : BOOLEAN]

NoResult == [forecast_df |-> <<>>, kpis |-> <<>>, budget_df |-> NoBudgetOut,
             recommendations |-> <<>>]

----------------------------------------------------------------------------
(* The state machine: a caller holds assumptions and an optional budget and
   invokes build_macro_forecast once *)

\* the micro view has computed nothing
NoMicro == [op |-> "none", by |-> NA, failed |-> FALSE, out |-> <<>>]

\* no file has been uploaded
NoUpload == [columns |-> <<>>, rows |-> <<>>]

\* the micro view is not in use
MicroIdle ==
    /\ donations_raw = NoUpload
    /\ donations = <<>>
    /\ costs = <<>>
    /\ micro = NoMicro

\* no further invocation is in progress
NoCalls ==
    /\ calls = <<>>
    /\ frames = <<>>

Init ==
    /\ inputs \in MacroInputs
    /\ budget_df = NoneFrame
    /\ result = NoResult
    /\ pc = "call"
    /\ MicroIdle
    /\ NoCalls

BuildMacroForecast ==
    /\ pc = "call"
    /\ result' = build_macro_forecast(inputs, budget_df)
    /\ budget_df' = caller_budget_after(budget_df)
    /\ pc' = "returned"
    /\ UNCHANGED <<inputs, donations_raw, donations, costs, micro, calls, frames>>

Next == BuildMacroForecast

Spec == Init /\ [][Next]_vars

----------------------------------------------------------------------------
(* Calls with an uploaded budget *)

\* the budget tables hold at most MaxBudgetRows rows
MaxBudgetRows == 2

\* column names of uploaded budgets: the template's and variants of them
C_Year == <<"Y","e","a","r">>
C_BudgetRevenue == <<"B","u","d","g","e","t"," ","R","e","v","e","n","u","e">>
C_BudgetCost == <<"B","u","d","g","e","t"," ","C","o","s","t">>
C_YEAR_padded == <<" ","Y","E","A","R"," ">>
C_budget_revenue == <<"b","u","d","g","e","t","_","r","e","v","e","n","u","e">>
C_Cost_Budget == <<"C","o","s","t","_","B","u","d","g","e","t">>
C_Period == <<"P","e","r","i","o","d">>
C_Revenue == <<"R","e","v","e","n","u","e">>
C_Cost == <<"C","o","s","t">>

BudgetColumns ==
    { <<C_Year, C_BudgetRevenue, C_BudgetCost>>,
      <<C_YEAR_padded, C_budget_revenue, C_Cost_Budget>>,
      <<C_Period, C_BudgetRevenue, C_BudgetCost>>,
      <<C_Year, C_Revenue, C_BudgetCost>>,
      <<C_Year, C_BudgetRevenue, C_Cost>> }

\* Year cells of uploaded budgets: forecast labels, one with a trailing blank,
\* one of another naming
YearLabels == {"Year 1", "Year 3", "Year 1 ", "FY2025"}

BudgetRow == YearLabels \X {Float(200000), Float(250000)} \X {Float(100000), Float(180000)}

RECURSIVE SeqsUpTo(_, _)
SeqsUpTo(S, n) ==
    IF n = 0 THEN {<<>>}
    ELSE LET shorter == SeqsUpTo(S, n - 1)
         IN  shorter \cup {Append(q, x) : q \in {r \in shorter : Len(r) = n - 1}, x \in S}

BudgetFrames ==
    {NoneFrame} \cup
    {Frame(cols, rws) : cols \in BudgetColumns, rws \in SeqsUpTo(BudgetRow, MaxBudgetRows)}

\* the assumptions of the calls made with a budget
BudgetCallInputs ==
    [total_raised_y1 : {Float(250000)},
     base_cost_y1 : {Float(150000)},
     retention : {Q(3, 5)},
     revenue_method : {S_prior, S_remaining},
     revenue_shock : {Zero},
     margin : {Q(1, 5)},
     cost_growth : {Q(1, 20)},
     cost_shock : {Zero, Q(1, 20)},
     acquisition_cost_year1_only : {TRUE}]

InitBudget ==
    /\ inputs \in BudgetCallInputs
    /\ budget_df \in BudgetFrames
    /\ result = NoResult
    /\ pc = "call"
    /\ MicroIdle
    /\ NoCalls

SpecBudget == InitBudget /\ [][Next]_vars

----------------------------------------------------------------------------
(* The micro view: the normalised donation and cost tables are handed to
   segment_donors_basic, compute_kpis and compute_rollups *)

MaxDonations == 3
MaxCosts == 2

DonationRow(date, amount, donor_id, campaign_code, channel) ==
    [date |-> date, amount |-> amount, donor_id |-> donor_id,
     campaign_code |-> campaign_code, channel |-> channel]

CostRow(cost_amount, campaign_code, channel) ==
    [cost_amount |-> cost_amount, campaign_code |-> campaign_code, channel |-> channel]

\* donation rows as normalize_columns leaves them: a donor giving twice on the
\* first day and once later, a second donor, a missing amount, a refund,
\* dimension values defaulted to UNMAPPED, a missing donor_id
DonationRows ==
    {DonationRow(1, Float(100), "D1", "A", "EMAIL"),
     DonationRow(1, Float(50), "D1", "B", "MAIL"),
     DonationRow(2, Float(25), "D1", "A", "UNMAPPED"),
     DonationRow(2, NaN, "D2", "B", "EMAIL"),
     DonationRow(3, Float(-150), NA, "UNMAPPED", "MAIL")}

\* cost rows as normalize_columns leaves them: a campaign with donations, one
\* without, a missing amount, a credit, a channel defaulted to UNMAPPED
CostRows ==
    {CostRow(Float(60), "A", "EMAIL"),
     CostRow(NaN, "B", "UNMAPPED"),
     CostRow(Float(-90), "C", "MAIL")}

\* the dimensions app.py rolls up by
Dimensions == {"campaign_code", "channel"}

InitMicro ==
    /\ inputs = <<>>
    /\ budget_df = NoneFrame
    /\ result = NoResult
    /\ pc = "idle"
    /\ donations_raw = NoUpload
    /\ donations \in SeqsUpTo(DonationRows, MaxDonations)
    /\ costs \in SeqsUpTo(CostRows, MaxCosts)
    /\ micro = NoMicro
    /\ NoCalls

SegmentDonorsBasic ==
    /\ micro.op = "none"
    /\ micro' = [op |-> "segment_donors_basic", by |-> NA, failed |-> FALSE,
                 out |-> segment_donors_basic(donations)]
    /\ UNCHANGED <<inputs, budget_df, result, pc, donations_raw, donations, costs, calls, frames>>

ComputeKpis ==
    /\ micro.op = "none"
    /\ micro' = [op |-> "compute_kpis", by |-> NA, failed |-> FALSE,
                 out |-> compute_kpis(donations, costs)]
    /\ UNCHANGED <<inputs, budget_df, result, pc, donations_raw, donations, costs, calls, frames>>

\* With no group on either side the joined frame is empty, and assigning the
\* result of apply(axis=1) on an empty frame to a column fails or not with the
\* pandas version: both outcomes are kept.
ComputeRollups ==
    /\ micro.op = "none"
    /\ \E by \in Dimensions :
          \E failed \in IF GroupKeys(donations, by) \cup GroupKeys(costs, by) = {}
                         THEN BOOLEAN ELSE {FALSE} :
             micro' = [op |-> "compute_rollups", by |-> by, failed |-> failed,
                       out |-> IF failed THEN <<>>
                               ELSE compute_rollups(donations, costs, by)]
    /\ UNCHANGED <<inputs, budget_df, result, pc, donations_raw, donations, costs, calls, frames>>

NextMicro ==
    \/ SegmentDonorsBasic
    \/ ComputeKpis
    \/ ComputeRollups

SpecMicro == InitMicro /\ [][NextMicro]_vars

----------------------------------------------------------------------------
(* The metrics on tables as normalize_columns leaves them, without the
   filters of micro_view: a donation whose upload had neither a channel nor a
   payment method has a missing channel *)

DonationRowsUnfiltered ==
    {DonationRow(1, Float(100), "D1", "A", "EMAIL"),
     DonationRow(2, Float(25), "D1", "A", "UNMAPPED"),
     DonationRow(2, Float(70), "D2", "B", NA)}

InitMicroUnfiltered ==
    /\ inputs = <<>>
    /\ budget_df = NoneFrame
    /\ result = NoResult
    /\ pc = "idle"
    /\ donations_raw = NoUpload
    /\ donations \in SeqsUpTo(DonationRowsUnfiltered, MaxDonations)
    /\ costs \in SeqsUpTo(CostRows, MaxCosts)
    /\ micro = NoMicro
    /\ NoCalls

SpecMicroUnfiltered == InitMicroUnfiltered /\ [][NextMicro]_vars

----------------------------------------------------------------------------
(* The donations upload: micro_view reads the file and normalises it *)

MaxUploadRows == 2

\* the headers every upload of the model has, and the optional ones
RequiredHeaders == <<"Date Received", "Amount", "VANID">>
OptionalHeaders == <<"Source Code", "Channel", " Payment Method ">>

\* the cells an upload can have under a header; a cell left empty is read as
\* missing
CellsOf(h) ==
    CASE h = "Date Received" -> {"2024-01-05"}
      [] h = "Amount" -> {"100"}
      [] h = "VANID" -> {"D1"}
      [] h = "Source Code" -> {"A", NA}
      [] h = "Channel" -> {"EMAIL", " ", NA}
      [] h = " Payment Method " -> {"Check", NA}

\* the header rows: the required headers and any of the optional ones
UploadColumns ==
    {RequiredHeaders \o SelectSeq(OptionalHeaders, LAMBDA h : h \in opt) :
        opt \in SUBSET {OptionalHeaders[k] : k \in DOMAIN OptionalHeaders}}

\* the rows an upload with the given headers can have
UploadRows(cols) ==
    {r \in [DOMAIN cols -> UNION {CellsOf(cols[c]) : c \in DOMAIN cols}] :
        \A c \in DOMAIN cols : r[c] \in CellsOf(cols[c])}

Uploads ==
    UNION {{[columns |-> cols, rows |-> rws] : rws \in SeqsUpTo(UploadRows(cols), MaxUploadRows)} :
           cols \in UploadColumns}

InitUpload ==
    /\ inputs = <<>>
    /\ budget_df = NoneFrame
    /\ result = NoResult
    /\ pc = "idle"
    /\ donations_raw \in Uploads
    /\ donations = <<>>
    /\ costs = <<>>
    /\ micro = NoMicro
    /\ NoCalls

\* donations_df = normalize_columns(donations_raw, kind="donations")
NormalizeDonations ==
    /\ micro.op = "none"
    /\ donations' = normalize_columns(donations_raw, "donations")
    /\ micro' = [op |-> "normalize_columns", by |-> NA, failed |-> FALSE, out |-> <<>>]
    /\ UNCHANGED <<inputs, budget_df, result, pc, donations_raw, costs, calls, frames>>

NextUpload == NormalizeDonations

SpecUpload == InitUpload /\ [][NextUpload]_vars

----------------------------------------------------------------------------
(* Concurrent requests: several invocations of build_macro_forecast in
   progress at once, their statements interleaved.  An invocation holds its
   arguments and return value in calls[i]; the values its statements compute
   (df, kpis, budget_df, recs) are local variables of the function body. *)

NumCalls == 2

\* mutant: the function body keeps its values in module-level variables
Slot_module_level(i) == 1

\* where invocation i keeps the values it computes: in its own locals
Slot(i) == i

NoLocals == [df |-> <<>>, kpis |-> <<>>, budget_df |-> NoBudgetOut, recs |-> <<>>]

ConcurrentInputs ==
    [total_raised_y1 : {Float(250000)},
     base_cost_y1 : {Float(150000)},
     retention : {Q(3, 5), One},
     revenue_method : {S_prior},
     revenue_shock : {Zero},
     margin : {Q(1, 5)},
     cost_growth : {Q(1, 20)},
     cost_shock : {Zero},
     acquisition_cost_year1_only : {TRUE, FALSE}]

ConcurrentBudgets ==
    {NoneFrame,
     Frame(<<C_Year, C_BudgetRevenue, C_BudgetCost>>,
           <<(<<"Year 1", Float(200000), Float(100000)>>)>>)}

NewCall(inp, b_df) ==
    [inputs |-> inp, budget_df |-> b_df, pc |-> "call", overlapped |-> FALSE,
     result |-> NoResult]

InitConcurrent ==
    /\ inputs = <<>>
    /\ budget_df = NoneFrame
    /\ result = NoResult
    /\ pc = "idle"
    /\ MicroIdle
    /\ calls \in [1..NumCalls -> {NewCall(inp, b) : inp \in ConcurrentInputs,
                                                    b \in ConcurrentBudgets}]
    /\ frames = [i \in 1..NumCalls |-> NoLocals]

\* another invocation is between its first statement and its return
OthersInProgress(i) ==
    \E j \in DOMAIN calls : j /= i /\ calls[j].pc \notin {"call", "returned"}

\* invocation i executes the statements that take it from one place to the next
Advance(i, from, to, field, value) ==
    /\ calls[i].pc = from
    /\ frames' = [frames EXCEPT ![Slot(i)][field] = value]
    /\ calls' = [calls EXCEPT ![i].pc = to,
                              ![i].overlapped = @ \/ OthersInProgress(i)]
    /\ UNCHANGED <<inputs, budget_df, result, pc, donations_raw, donations, costs, micro>>

\* lines 93-107: the two series and the forecast frame
StepFrame(i) ==
    Advance(i, "call", "kpis", "df", ForecastFrame(calls[i].inputs))

\* lines 109-130
StepKpis(i) ==
    Advance(i, "kpis", "budget", "kpis", Kpis(frames[Slot(i)].df))

\* lines 132-154
StepBudget(i) ==
    Advance(i, "budget", "recs", "budget_df",
            BudgetCompare(calls[i].budget_df, frames[Slot(i)].df))

\* lines 156-166
StepRecs(i) ==
    Advance(i, "recs", "return", "recs",
            Recommendations(frames[Slot(i)].kpis, calls[i].inputs))

\* lines 168-173
StepReturn(i) ==
    /\ calls[i].pc = "return"
    /\ calls' = [calls EXCEPT ![i].pc = "returned",
                              ![i].overlapped = @ \/ OthersInProgress(i),
                              ![i].result = [forecast_df |-> frames[Slot(i)].df,
                                             kpis |-> frames[Slot(i)].kpis,
                                             budget_df |-> frames[Slot(i)].budget_df,
                                             recommendations |-> frames[Slot(i)].recs]]
    /\ UNCHANGED <<inputs, budget_df, result, pc, donations_raw, donations, costs, micro, frames>>

NextConcurrent ==
    \E i \in 1..NumCalls :
        \/ StepFrame(i)
        \/ StepKpis(i)
        \/ StepBudget(i)
        \/ StepRecs(i)
        \/ StepReturn(i)

SpecConcurrent == InitConcurrent /\ [][NextConcurrent]_vars

----------------------------------------------------------------------------
(* Properties *)

Returned == pc = "returned"

Rev(i) == result.forecast_df[i].Revenue
Cost(i) == result.forecast_df[i].Cost

\* the cost series the same assumptions give with no cost shock
CostPreShock ==
    _build_cost_series(inputs.base_cost_y1, inputs.margin, inputs.cost_growth,
                       Zero, inputs.acquisition_cost_year1_only)

\* the revenue series the same assumptions give with no revenue shock
RevPreShock ==
    _build_revenue_series(inputs.total_raised_y1, inputs.retention,
                          inputs.revenue_method, Zero)

\* C1 (as claimed): each of the Year 1, Year 2 and Year 3 costs of the forecast
\* equals its pre-shock value times (1 + cost_shock), Year 1 included.
C1_CostShockAllThreeYears ==
    Returned =>
        \A i \in 1..3 : Cost(i) = Mul(CostPreShock[i], Add(One, inputs.cost_shock))

\* C1 (amended): the Year 2 and Year 3 costs of the forecast equal their
\* pre-shock values times (1 + cost_shock); the Year 1 cost is
\* base * (1 + margin) whatever the cost shock.
C1_CostShockYears2And3Only ==
    Returned =>
        /\ Cost(1) = Mul(inputs.base_cost_y1, Add(One, inputs.margin))
        /\ Cost(1) = CostPreShock[1]
        /\ \A i \in 2..3 : Cost(i) = Mul(CostPreShock[i], Add(One, inputs.cost_shock))

\* C1 witness: a 5% cost shock on base 150000, margin 0.20 leaves Year 1 at
\* 180000 and raises Year 2 from 31500 to 33075.
C1_Witness ==
    /\ Returned
    /\ inputs.cost_shock = Q(1, 20)
    /\ inputs.base_cost_y1 = Float(150000)
    /\ inputs.margin = Q(1, 5)
    /\ inputs.cost_growth = Q(1, 20)
    /\ inputs.acquisition_cost_year1_only
    /\ Cost(1) = Float(180000)
    /\ Cost(2) = Float(33075)

\* C2: with method "prior" and revenue_shock = 0 the revenue series is
\* [y1, retention*y1, retention*(retention*y1)]; y1 = 250000, retention = 0.6
\* give Year 2 = 150000 and Year 3 = 90000.
C2_PriorRevenueSeries ==
    (Returned /\ inputs.revenue_method = S_prior /\ inputs.revenue_shock = Zero) =>
        /\ Rev(1) = inputs.total_raised_y1
        /\ Rev(2) = Mul(inputs.retention, inputs.total_raised_y1)
        /\ Rev(3) = Mul(inputs.retention, Mul(inputs.retention, inputs.total_raised_y1))
        /\ (inputs.total_raised_y1 = Float(250000) /\ inputs.retention = Q(3, 5)) =>
               (Rev(2) = Float(150000) /\ Rev(3) = Float(90000))

\* C2 witness: the documented sample has been forecast.
C2_Witness ==
    /\ Returned
    /\ inputs.revenue_method = S_prior
    /\ inputs.revenue_shock = Zero
    /\ inputs.total_raised_y1 = Float(250000)
    /\ inputs.retention = Q(3, 5)
    /\ Rev(3) = Float(90000)

\* C3: Year 1 revenue equals total_raised_y1 whatever the revenue shock; Year 2
\* and Year 3 revenue each equal their pre-shock value times
\* (1 + revenue_shock), the factor applied once to each.
C3_RevenueShockYears2And3Once ==
    Returned =>
        /\ Rev(1) = inputs.total_raised_y1
        /\ \A i \in 2..3 : Rev(i) = Mul(RevPreShock[i], Add(One, inputs.revenue_shock))

\* C3 witness: a -10% shock on 250000 at retention 0.6 gives 250000, 135000,
\* 81000 (not 72900, which compounding the shock would give).
C3_Witness ==
    /\ Returned
    /\ inputs.revenue_method = S_prior
    /\ inputs.revenue_shock = Q(-1, 10)
    /\ inputs.total_raised_y1 = Float(250000)
    /\ inputs.retention = Q(3, 5)
    /\ Rev(1) = Float(250000)
    /\ Rev(2) = Float(135000)
    /\ Rev(3) = Float(81000)

\* C4: with a method that reads "remaining" once trimmed and lower-cased,
\* Year 2 and Year 3 revenue are 0 for every total_raised_y1, retention and
\* revenue_shock, and Year 1 revenue is total_raised_y1.
C4_RemainingYieldsZero ==
    (Returned /\ StrLower(StrStrip(inputs.revenue_method)) = S_remaining) =>
        /\ Rev(1) = inputs.total_raised_y1
        /\ Rev(2) = Zero
        /\ Rev(3) = Zero

\* C4 witness: "remaining" with a positive Year 1, retention and shock.
C4_Witness ==
    /\ Returned
    /\ inputs.revenue_method = S_remaining
    /\ inputs.total_raised_y1 = Float(250000)
    /\ inputs.retention = Q(3, 5)
    /\ inputs.revenue_shock = Q(1, 20)
    /\ Rev(1) = Float(250000)
    /\ Rev(2) = Zero

\* C5: with cost_shock = 0, Year 1 = base*(1+margin); under the Year-1-only
\* policy Year 2 = (base*margin)*(1+growth) and Year 3 = (base*margin)*(1+growth)^2,
\* otherwise Year 2 = Year1*(1+growth) and Year 3 = Year2*(1+growth);
\* base 150000, margin 0.20, growth 0.05, Year-1-only give 180000, 31500, 33075.
C5_CostSeriesFollowsPolicy ==
    (Returned /\ inputs.cost_shock = Zero) =>
        LET base == inputs.base_cost_y1
            g == Add(One, inputs.cost_growth)
        IN  /\ Cost(1) = Mul(base, Add(One, inputs.margin))
            /\ inputs.acquisition_cost_year1_only =>
                   /\ Cost(2) = Mul(Mul(base, inputs.margin), g)
                   /\ Cost(3) = Mul(Mul(Mul(base, inputs.margin), g), g)
            /\ ~inputs.acquisition_cost_year1_only =>
                   /\ Cost(2) = Mul(Cost(1), g)
                   /\ Cost(3) = Mul(Cost(2), g)
            /\ (/\ base = Float(150000)
                /\ inputs.margin = Q(1, 5)
                /\ inputs.cost_growth = Q(1, 20)
                /\ inputs.acquisition_cost_year1_only) =>
                   (Cost(1) = Float(180000) /\ Cost(2) = Float(31500) /\ Cost(3) = Float(33075))

\* C5 witness: the documented sample has been forecast.
C5_Witness ==
    /\ Returned
    /\ inputs.cost_shock = Zero
    /\ inputs.base_cost_y1 = Float(150000)
    /\ inputs.margin = Q(1, 5)
    /\ inputs.cost_growth = Q(1, 20)
    /\ inputs.acquisition_cost_year1_only
    /\ Cost(3) = Float(33075)

Net(i) == result.forecast_df[i].Net
RoiMultiple(i) == result.forecast_df[i]["ROI Multiple"]
RoiPct(i) == result.forecast_df[i]["ROI %"]

\* C6: the forecast has exactly three rows labelled Year 1, Year 2, Year 3 in
\* that order, and in every row Net equals Revenue minus Cost of that row.
C6_ThreeRowsNetIsRevenueMinusCost ==
    Returned =>
        /\ Len(result.forecast_df) = 3
        /\ result.forecast_df[1].Year = "Year 1"
        /\ result.forecast_df[2].Year = "Year 2"
        /\ result.forecast_df[3].Year = "Year 3"
        /\ \A i \in 1..3 : Add(Net(i), Cost(i)) = Rev(i)

\* C6 witness: the documented sample gives Net 70000, 118500, 56925.
C6_Witness ==
    /\ Returned
    /\ Rev(1) = Float(250000) /\ Cost(1) = Float(180000) /\ Net(1) = Float(70000)
    /\ Rev(2) = Float(150000) /\ Cost(2) = Float(31500) /\ Net(2) = Float(118500)
    /\ Rev(3) = Float(90000) /\ Cost(3) = Float(33075) /\ Net(3) = Float(56925)

\* C7: in every forecast row ROI Multiple is Revenue/Cost when Cost is not 0 and
\* exactly 0 when Cost is 0, and ROI % is ROI Multiple minus 1 (-1 in a
\* zero-cost row).
C7_RowRoiGuardedDivision ==
    Returned =>
        \A i \in 1..3 :
            /\ Cost(i) /= Zero => Mul(RoiMultiple(i), Cost(i)) = Rev(i)
            /\ Cost(i) = Zero => (RoiMultiple(i) = Zero /\ RoiPct(i) = Float(-1))
            /\ Add(RoiPct(i), One) = RoiMultiple(i)

\* C7 witness: a forecast with a zero-cost row that has revenue (margin 0 under
\* the Year-1-only policy) beside a row whose cost is not zero.
C7_Witness ==
    /\ Returned
    /\ Cost(1) = Float(150000) /\ Rev(1) = Float(250000) /\ RoiMultiple(1) = Q(5, 3)
    /\ Cost(2) = Zero /\ Rev(2) = Float(150000)
    /\ RoiMultiple(2) = Zero /\ RoiPct(2) = Float(-1)

TotalRev == result.kpis["Total Revenue (3yr)"]
TotalCost == result.kpis["Total Cost (3yr)"]
TotalNet == result.kpis["Total Net (3yr)"]

\* C8: the KPIs are derived from the three rows: Total Revenue, Total Cost and
\* Total Net are the sums of the rows' Revenue, Cost and Net; ROI Multiple (3yr)
\* is Total Revenue/Total Cost, or 0 when Total Cost is 0; Cost per $1 (3yr) is
\* Total Cost/Total Revenue, or 0 when Total Revenue is 0; the key
\* 'Cost per $1 (3yr)' is always present.
C8_KpisAreRowTotals ==
    Returned =>
        /\ "Cost per $1 (3yr)" \in DOMAIN result.kpis
        /\ TotalRev = Add(Add(Rev(1), Rev(2)), Rev(3))
        /\ TotalCost = Add(Add(Cost(1), Cost(2)), Cost(3))
        /\ TotalNet = Add(Add(Net(1), Net(2)), Net(3))
        /\ TotalCost /= Zero => Mul(result.kpis["ROI Multiple (3yr)"], TotalCost) = TotalRev
        /\ TotalCost = Zero => result.kpis["ROI Multiple (3yr)"] = Zero
        /\ TotalRev /= Zero => Mul(result.kpis["Cost per $1 (3yr)"], TotalRev) = TotalCost
        /\ TotalRev = Zero => result.kpis["Cost per $1 (3yr)"] = Zero

\* C8 witness: the documented sample totals 490000 revenue, 244575 cost and
\* 245425 net, ROI multiple 490000/244575.
C8_Witness ==
    /\ Returned
    /\ Rev(1) = Float(250000) /\ Rev(2) = Float(150000) /\ Rev(3) = Float(90000)
    /\ TotalRev = Float(490000)
    /\ TotalCost = Float(244575)
    /\ TotalNet = Float(245425)
    /\ result.kpis["ROI Multiple (3yr)"] = Q(490000, 244575)

\* C9: for total_raised_y1 >= 0 and base_cost_y1 >= 0, whenever
\* Total Revenue (3yr) > 0, Cost per $1 (3yr) * Total Revenue (3yr) equals
\* Total Cost (3yr).
C9_CostPerDollarTimesRevenueIsCost ==
    (/\ Returned
     /\ Leq(Zero, inputs.total_raised_y1)
     /\ Leq(Zero, inputs.base_cost_y1)
     /\ Less(Zero, TotalRev)) =>
        Mul(result.kpis["Cost per $1 (3yr)"], TotalRev) = TotalCost

\* C9 witness: the documented sample, Cost per $1 = 244575/490000.
C9_Witness ==
    /\ Returned
    /\ inputs.total_raised_y1 = Float(250000)
    /\ inputs.base_cost_y1 = Float(150000)
    /\ TotalRev = Float(490000)
    /\ TotalCost = Float(244575)
    /\ result.kpis["Cost per $1 (3yr)"] = Q(244575, 490000)

\* the Revenue and Cost of each row and the two totals are non-negative
MoneyNonNegative ==
    /\ \A i \in 1..3 : Leq(Zero, Rev(i)) /\ Leq(Zero, Cost(i))
    /\ Leq(Zero, TotalRev)
    /\ Leq(Zero, TotalCost)

\* C10 (as claimed): for any assumptions with total_raised_y1 >= 0 and
\* base_cost_y1 >= 0, Revenue and Cost of each row, Total Revenue (3yr) and
\* Total Cost (3yr) are non-negative.
C10_MoneyNonNegativeForAnyAssumptions ==
    (/\ Returned
     /\ Leq(Zero, inputs.total_raised_y1)
     /\ Leq(Zero, inputs.base_cost_y1)) => MoneyNonNegative

\* C10 (amended): the same, for assumptions that also have retention >= 0,
\* revenue_shock >= -1, margin >= 0, cost_growth >= -1 and cost_shock >= -1.
C10_MoneyNonNegativeInRange ==
    (/\ Returned
     /\ Leq(Zero, inputs.total_raised_y1)
     /\ Leq(Zero, inputs.base_cost_y1)
     /\ Leq(Zero, inputs.retention)
     /\ Leq(Float(-1), inputs.revenue_shock)
     /\ Leq(Zero, inputs.margin)
     /\ Leq(Float(-1), inputs.cost_growth)
     /\ Leq(Float(-1), inputs.cost_shock)) => MoneyNonNegative

\* C10 witness: in-range assumptions with negative shocks: every Revenue and
\* Cost is positive while the Year 1 Net is negative.
C10_Witness ==
    /\ Returned
    /\ inputs.total_raised_y1 = Float(1000)
    /\ inputs.base_cost_y1 = Float(150000)
    /\ inputs.retention = Q(3, 5)
    /\ inputs.revenue_method = S_prior
    /\ inputs.revenue_shock = Q(-1, 10)
    /\ inputs.margin = Q(1, 5)
    /\ inputs.cost_growth = Q(1, 20)
    /\ inputs.cost_shock = Q(-1, 10)
    /\ \A i \in 1..3 : Less(Zero, Rev(i)) /\ Less(Zero, Cost(i))
    /\ Less(Net(1), Zero)
    /\ MoneyNonNegative

Recs == result.recommendations
Roi3yr == result.kpis["ROI Multiple (3yr)"]
BandAdvisories == {REC_BELOW, REC_MODERATE, REC_STRONG}

\* C11: exactly one ROI-band advisory is emitted, it is the first
\* recommendation, and it is the 'below 1.0x' advisory iff ROI Multiple (3yr)
\* < 1.0, the 'moderate' advisory iff 1.0 <= ROI Multiple (3yr) < 2.0 and the
\* 'strong' advisory iff ROI Multiple (3yr) >= 2.0.
C11_RoiBandsPartition ==
    Returned =>
        /\ Len(Recs) >= 1
        /\ Cardinality({i \in 1..Len(Recs) : Recs[i] \in BandAdvisories}) = 1
        /\ Recs[1] \in BandAdvisories
        /\ Recs[1] = REC_BELOW <=> Less(Roi3yr, One)
        /\ Recs[1] = REC_MODERATE <=> (Leq(One, Roi3yr) /\ Less(Roi3yr, Two))
        /\ Recs[1] = REC_STRONG <=> Leq(Two, Roi3yr)

\* C11 witness: a break-even forecast (ROI multiple exactly 1.0) gets the
\* 'moderate' advisory, not the 'below 1.0x' one.
C11_Witness ==
    /\ Returned
    /\ TotalRev = Float(1000)
    /\ TotalCost = Float(1000)
    /\ Roi3yr = One
    /\ Recs[1] = REC_MODERATE

\* the number of the four flag conditions of the specification that hold
FlagCount(inp) ==
    (IF Less(inp.retention, Q(55, 100)) THEN 1 ELSE 0)
    + (IF Less(Q(10, 100), inp.cost_growth) THEN 1 ELSE 0)
    + (IF Less(inp.revenue_shock, Zero) THEN 1 ELSE 0)
    + (IF inp.acquisition_cost_year1_only THEN 1 ELSE 0)

\* the advisories after the ROI-band advisory, the note on the 'remaining'
\* revenue method left aside
FlagAdvisories == SelectSeq(Tail(Recs), LAMBDA r : r /= REC_REMAINING)

\* C12 (as claimed): after the ROI-band advisory one advisory is emitted for each
\* of the four flags (retention < 0.55, cost_growth > 0.10, revenue_shock < 0,
\* acquisition_cost_year1_only) exactly when its condition holds.
C12_FlagAdvisoriesEmitted ==
    Returned => Len(FlagAdvisories) = FlagCount(inputs)

\* the positions of the Year, Budget Revenue and Budget Cost columns of the
\* caller's budget (0 when it has no such column)
BYearCol == FirstCol(StripCols(budget_df.columns), {S_year})
BRevCol == FirstCol(StripCols(budget_df.columns), {S_budget_revenue, S_budget__revenue, S_revenue_budget})
BCostCol == FirstCol(StripCols(budget_df.columns), {S_budget_cost, S_budget__cost, S_cost_budget})

\* the caller's budget has rows and the three columns
BudgetUsable ==
    /\ ~budget_df.none
    /\ Len(budget_df.rows) > 0
    /\ BYearCol /= 0 /\ BRevCol /= 0 /\ BCostCol /= 0

ForecastYears == {result.forecast_df[i].Year : i \in DOMAIN result.forecast_df}

BudgetOut == result.budget_df

\* C13 (as claimed): when a non-empty budget with the three columns has no Year
\* label equal to a forecast Year, the variance result is None or has no rows,
\* and the caller shows that no budget comparison is available.
C13_NoMatchYieldsNoVariance ==
    (/\ Returned
     /\ BudgetUsable
     /\ \A k \in DOMAIN budget_df.rows : budget_df.rows[k][BYearCol] \notin ForecastYears) =>
        /\ BudgetOut.none \/ Len(BudgetOut.rows) = 0
        /\ macro_view_budget_tab(result) = "info"

\* C14: every row of the budget yields one comparison row, and for a budget row
\* whose Year label equals a forecast Year that row has
\* Budget Net = Budget Revenue - Budget Cost, Revenue Var = forecast Revenue -
\* Budget Revenue, Cost Var = forecast Cost - Budget Cost, Net Var = forecast
\* Net - Budget Net, the forecast values being those of the forecast row of
\* that Year.
C14_VarianceOfMatchedRows ==
    (Returned /\ BudgetUsable) =>
        /\ ~BudgetOut.none
        /\ Len(BudgetOut.rows) = Len(budget_df.rows)
        /\ \A k \in DOMAIN budget_df.rows : \A i \in DOMAIN result.forecast_df :
              result.forecast_df[i].Year = budget_df.rows[k][BYearCol] =>
                LET m == BudgetOut.rows[k]
                    f == result.forecast_df[i]
                    brev == budget_df.rows[k][BRevCol]
                    bcost == budget_df.rows[k][BCostCol]
                IN  /\ m.Year = f.Year
                    /\ m["Budget Revenue"] = brev
                    /\ m["Budget Cost"] = bcost
                    /\ Add(m["Budget Net"], bcost) = brev
                    /\ Add(m["Revenue Var"], brev) = f.Revenue
                    /\ Add(m["Cost Var"], bcost) = f.Cost
                    /\ Add(m["Net Var"], m["Budget Net"]) = f.Net

\* C14 witness: the sample forecast against a budget row Year 1, 200000, 100000
\* under variant column names: variances +50000, +80000 and -30000.
C14_Witness ==
    /\ Returned
    /\ BudgetUsable
    /\ budget_df.columns[1] = C_YEAR_padded
    /\ budget_df.rows[1] = <<"Year 1", Float(200000), Float(100000)>>
    /\ Rev(1) = Float(250000) /\ Cost(1) = Float(180000)
    /\ BudgetOut.rows[1]["Revenue Var"] = Float(50000)
    /\ BudgetOut.rows[1]["Cost Var"] = Float(80000)
    /\ BudgetOut.rows[1]["Net Var"] = Float(-30000)

\* a Year label with its leading and trailing whitespace removed
TrimmedLabel(l) == IF l = "Year 1 " THEN "Year 1" ELSE l

\* C15 (as claimed): a budget row whose Year differs from a forecast Year only
\* by surrounding whitespace is joined to that forecast year and gets its
\* forecast Revenue, Cost and Net.
C15_YearLabelsTrimmedBeforeJoin ==
    (Returned /\ BudgetUsable) =>
        \A k \in DOMAIN budget_df.rows : \A i \in DOMAIN result.forecast_df :
            result.forecast_df[i].Year = TrimmedLabel(budget_df.rows[k][BYearCol]) =>
                /\ BudgetOut.rows[k].Revenue = result.forecast_df[i].Revenue
                /\ BudgetOut.rows[k].Cost = result.forecast_df[i].Cost
                /\ BudgetOut.rows[k].Net = result.forecast_df[i].Net

\* the caller's budget is absent, has no rows, or lacks one of the columns
BudgetUnusable ==
    \/ budget_df.none
    \/ Len(budget_df.rows) = 0
    \/ BYearCol = 0 \/ BRevCol = 0 \/ BCostCol = 0

\* what the same assumptions give with no budget
NoBudgetResult == build_macro_forecast(inputs, NoneFrame)

\* the total of a column of a table, a missing amount counted as 0
RECURSIVE TableTotal(_, _)
TableTotal(rows, col) ==
    IF rows = <<>> THEN Zero
    ELSE Add(IF Head(rows)[col] = NaN THEN Zero ELSE Head(rows)[col],
             TableTotal(Tail(rows), col))

\* the values a table has in a column, missing values left out
ValuesIn(rows, col) == {rows[k][col] : k \in DOMAIN rows} \ {NA}

\* the rows of a table with a given value in a column
RowsWith(rows, col, v) == SelectSeq(rows, LAMBDA r : r[col] = v)

\* C16: compute_kpis returns total_raised = sum of amounts and total_costs =
\* sum of cost amounts (missing amounts counted as 0), net_raised =
\* total_raised - total_costs, roi = net_raised/total_costs or 0 when
\* total_costs <= 0, cost_to_raise_1 = total_costs/total_raised or 0 when
\* total_raised <= 0, donors = number of distinct donor ids, gifts = number of
\* donation rows, avg_gift = total_raised/gifts or 0 when gifts = 0; it does
\* not fail, on empty tables included.
C16_ComputeKpisContract ==
    micro.op = "compute_kpis" =>
        LET k == micro.out
        IN  /\ ~micro.failed
            /\ k.total_raised = TableTotal(donations, "amount")
            /\ k.total_costs = TableTotal(costs, "cost_amount")
            /\ k.net_raised = Sub(k.total_raised, k.total_costs)
            /\ IF Leq(k.total_costs, Zero) THEN k.roi = Zero
               ELSE Mul(k.roi, k.total_costs) = k.net_raised
            /\ IF Leq(k.total_raised, Zero) THEN k.cost_to_raise_1 = Zero
               ELSE Mul(k.cost_to_raise_1, k.total_raised) = k.total_costs
            /\ k.donors = Cardinality(ValuesIn(donations, "donor_id"))
            /\ k.gifts = Len(donations)
            /\ IF k.gifts = 0 THEN k.avg_gift = Zero
               ELSE Mul(k.avg_gift, Float(k.gifts)) = k.total_raised

\* C16 witness: compute_kpis has returned for three gifts of two donors, one
\* with a missing amount, against positive costs
C16_Witness ==
    /\ micro.op = "compute_kpis"
    /\ micro.out.gifts = 3
    /\ micro.out.donors = 2
    /\ \E k \in DOMAIN donations : donations[k].amount = NaN
    /\ Less(Zero, micro.out.total_costs)
    /\ Less(Zero, micro.out.roi)
    /\ Less(Zero, micro.out.cost_to_raise_1)

\* C17: compute_rollups outer-joins the per-group sums: every dimension value
\* present in donations or in costs yields exactly one output row; a value
\* present only in donations has costs = 0 and roi = 0, a value present only
\* in costs has raised = 0 and cost_to_raise_1 = 0; in every row net = raised
\* - costs, roi = net/costs when costs > 0 and cost_to_raise_1 = costs/raised
\* when raised > 0.
C17_RollupsOuterJoin ==
    micro.op = "compute_rollups" =>
        LET inDonations == ValuesIn(donations, micro.by)
            inCosts == ValuesIn(costs, micro.by)
        IN  \A v \in inDonations \cup inCosts :
                /\ ~micro.failed
                /\ Cardinality({i \in DOMAIN micro.out : micro.out[i].key = v}) = 1
                /\ \A i \in DOMAIN micro.out :
                       micro.out[i].key = v =>
                           LET r == micro.out[i]
                           IN  /\ r.raised = TableTotal(RowsWith(donations, micro.by, v), "amount")
                               /\ r.costs = TableTotal(RowsWith(costs, micro.by, v), "cost_amount")
                               /\ v \notin inCosts => r.costs = Zero /\ r.roi = Zero
                               /\ v \notin inDonations => r.raised = Zero /\ r.cost_to_raise_1 = Zero
                               /\ r.net = Sub(r.raised, r.costs)
                               /\ Less(Zero, r.costs) => Mul(r.roi, r.costs) = r.net
                               /\ Less(Zero, r.raised) => Mul(r.cost_to_raise_1, r.raised) = r.costs

\* C17 witness: a rollup has one row for a value only donations have, one for a
\* value only costs have, and one for a value both have
C17_Witness ==
    /\ micro.op = "compute_rollups"
    /\ ~micro.failed
    /\ \E i, j, k \in DOMAIN micro.out :
          /\ micro.out[i].key \in ValuesIn(donations, micro.by) \ ValuesIn(costs, micro.by)
          /\ micro.out[j].key \in ValuesIn(costs, micro.by) \ ValuesIn(donations, micro.by)
          /\ micro.out[k].key \in ValuesIn(donations, micro.by) \cap ValuesIn(costs, micro.by)
          /\ Less(Zero, micro.out[k].roi)

\* the number of rows of a table equal to r
CountOf(rows, r) == Cardinality({k \in DOMAIN rows : rows[k] = r})

\* a labelled row without its label
Unlabelled(r) ==
    DonationRow(r.date, r.amount, r.donor_id, r.campaign_code, r.channel)

\* the earliest date of a donor in the donations table
EarliestDate(donor) ==
    LET dates == {donations[k].date : k \in {j \in DOMAIN donations : donations[j].donor_id = donor}}
    IN  CHOOSE m \in dates : \A x \in dates : m <= x

\* C18: segment_donors_basic labels every donation: for each donor_id, every
\* donation dated on that donor's earliest date in the dataset is New (all of
\* them when several share that date) and every later donation of that donor
\* is Returning; the rows are those of the input, apart from the added label
\* and the ordering.
C18_SegmentLabelsByEarliestDate ==
    micro.op = "segment_donors_basic" =>
        LET out == micro.out
        IN  /\ ~micro.failed
            /\ Len(out) = Len(donations)
            /\ \A i \in DOMAIN out :
                   /\ DOMAIN out[i] = DOMAIN Unlabelled(out[i]) \cup {"donor_segment"}
                   /\ out[i].donor_segment \in {"New", "Returning"}
                   /\ out[i].donor_id /= NA =>
                          /\ out[i].date = EarliestDate(out[i].donor_id)
                                 => out[i].donor_segment = "New"
                          /\ out[i].date > EarliestDate(out[i].donor_id)
                                 => out[i].donor_segment = "Returning"
            /\ \A r \in DonationRows :
                   CountOf(donations, r) = CountOf([i \in DOMAIN out |-> Unlabelled(out[i])], r)

\* C18 witness: a donor's two donations on the earliest date are both New and
\* a later one of the same donor is Returning
C18_Witness ==
    /\ micro.op = "segment_donors_basic"
    /\ \E i, j, k \in DOMAIN micro.out :
          /\ i /= j
          /\ micro.out[i].donor_id = micro.out[j].donor_id
          /\ micro.out[i].donor_id = micro.out[k].donor_id
          /\ micro.out[i].date = micro.out[j].date
          /\ micro.out[i].donor_segment = "New"
          /\ micro.out[j].donor_segment = "New"
          /\ micro.out[k].date > micro.out[i].date
          /\ micro.out[k].donor_segment = "Returning"

\* C19: the macro engine is stateless: in any sequence or interleaving of
\* build_macro_forecast invocations with differing assumptions and budgets,
\* the forecast rows, KPIs, budget comparison and recommendations an
\* invocation returns are those it returns when run alone on its arguments,
\* and its arguments are as the caller passed them.
C19_InvocationsIndependent ==
    \A i \in DOMAIN calls :
        calls[i].pc = "returned" =>
            calls[i].result = build_macro_forecast(calls[i].inputs, calls[i].budget_df)

\* C19 witness: two invocations with different assumptions and different
\* budgets have both returned, each having run statements while the other was
\* in progress, with different results
C19_Witness ==
    \E i, j \in DOMAIN calls :
        /\ calls[i].pc = "returned" /\ calls[j].pc = "returned"
        /\ calls[i].overlapped /\ calls[j].overlapped
        /\ calls[i].inputs /= calls[j].inputs
        /\ calls[i].budget_df /= calls[j].budget_df
        /\ calls[i].result.forecast_df /= calls[j].result.forecast_df
        /\ calls[i].result.kpis /= calls[j].result.kpis
        /\ calls[i].result.budget_df /= calls[j].result.budget_df

\* C20: when the budget is absent, has zero rows, or lacks any of the Year /
\* Budget Revenue / Budget Cost columns, the returned budget comparison is None
\* and forecast rows, KPIs and recommendations are those returned for the same
\* assumptions with no budget.
C20_UnusableBudgetYieldsNone ==
    (Returned /\ BudgetUnusable) =>
        /\ BudgetOut = NoBudgetOut
        /\ result.forecast_df = NoBudgetResult.forecast_df
        /\ result.kpis = NoBudgetResult.kpis
        /\ result.recommendations = NoBudgetResult.recommendations
        /\ Len(result.forecast_df) = 3
        /\ Len(result.recommendations) >= 1

\* C20 witness: a two-row budget without a Budget Cost column has been passed
\* and the call returned the forecast with no comparison.
C20_Witness ==
    /\ Returned
    /\ ~budget_df.none
    /\ Len(budget_df.rows) = 2
    /\ budget_df.columns = <<C_Year, C_BudgetRevenue, C_Cost>>
    /\ BudgetOut.none
    /\ TotalRev = Float(490000)
    /\ Recs = <<REC_STRONG>>

\* C21: build_macro_forecast is side-effect-free over its inputs: a call
\* leaves the MacroInputs record and the caller's budget table (rows, values
\* and column names) as they were, also when the budget columns carry
\* surrounding whitespace or variant names that the function renames
\* internally.
C21_CallLeavesInputsUnchanged ==
    [][BuildMacroForecast => inputs' = inputs /\ budget_df' = budget_df]_vars

\* C21 witness: a call has returned a budget comparison for a budget whose
\* columns carry surrounding whitespace and variant names
C21_Witness ==
    /\ Returned
    /\ ~result.budget_df.none
    /\ \E i \in DOMAIN budget_df.columns :
          StrStrip(budget_df.columns[i]) /= budget_df.columns[i]
    /\ \E i \in DOMAIN budget_df.columns :
          budget_df.columns[i] \notin {C_Year, C_BudgetRevenue, C_BudgetCost}

\* C22: the 'remaining' advisory is consistent with the revenue policy used:
\* for every revenue_method value, the "Revenue Method is set to 'remaining'"
\* recommendation is returned if and only if the revenue series was computed
\* with the REMAINING policy, that is, the method string trimmed and
\* lower-cased equals 'remaining'.
C22_RemainingAdvisoryIffRemainingPolicy ==
    Returned =>
        ((\E i \in DOMAIN Recs : Recs[i] = REC_REMAINING)
            <=> NormMethod(inputs.revenue_method) = S_remaining)

\* C23: the 'Overall ROI is below 1.0x (costs exceed returns)' advisory is
\* returned only when costs exceed returns: for total_raised_y1 >= 0 and
\* base_cost_y1 >= 0 (0 included), the advisory is among the recommendations
\* only if Total Cost (3yr) > Total Revenue (3yr).
C23_BelowAdvisoryOnlyWhenCostsExceed ==
    (/\ Returned
     /\ Leq(Zero, inputs.total_raised_y1)
     /\ Leq(Zero, inputs.base_cost_y1)
     /\ \E i \in DOMAIN Recs : Recs[i] = REC_BELOW)
        => Less(TotalRev, TotalCost)

\* the total of a column over the rows of a rollup
RECURSIVE RollupTotal(_, _)
RollupTotal(rows, col) ==
    IF rows = <<>> THEN Zero ELSE Add(Head(rows)[col], RollupTotal(Tail(rows), col))

RawCell(k, h) ==
    LET hit == {c \in DOMAIN donations_raw.columns : donations_raw.columns[c] = h}
    IN  IF hit = {} THEN NA ELSE donations_raw.rows[k][CHOOSE c \in hit : TRUE]

\* a cell holds a usable value: it is neither missing nor blank
Usable(v) == v /= NA /\ v \notin {"", " "}

\* C25: after normalize_columns(kind='donations') no donation row has a
\* missing channel or campaign_code: a row with no usable channel value gets
\* the payment method if there is one and the text 'UNMAPPED' otherwise, for
\* every combination of present and absent Channel and Payment Method columns.
C25_NoMissingChannelOrCampaign ==
    micro.op = "normalize_columns" =>
        /\ Len(donations) = Len(donations_raw.rows)
        /\ \A k \in DOMAIN donations :
               /\ donations[k].campaign_code /= NA
               /\ donations[k].channel /= NA
               /\ ~Usable(RawCell(k, "Channel")) =>
                      donations[k].channel =
                          IF Usable(RawCell(k, " Payment Method "))
                          THEN RawCell(k, " Payment Method ") ELSE "UNMAPPED"

====
